---------------------------- MODULE Spec2Model ----------------------------
(***************************************************************************)
(* A model of k-wave-python's solver execution layer:                      *)
(*   - kwave/executor.py: Executor.__init__ (platform/device resolution),  *)
(*     Executor._make_binary_executable and Executor.run_simulation;       *)
(*   - examples/simulation.py: load_simulations (the load loop and the     *)
(*     aggregation of the per-unit results), the scan loop of              *)
(*     prepare_simulations and run_simulations.                            *)
(*                                                                         *)
(* Strings that the code inspects by prefix (sys.platform) are sequences   *)
(* of characters.  A file name is the sequence of the pieces the code      *)
(* concatenates, in the order it concatenates them, so that "ends with"    *)
(* and "contains" are questions about that sequence.  A path is the        *)
(* sequence of its components followed by the pieces of the file name.     *)
(***************************************************************************)
EXTENDS Integers, Sequences, FiniteSets, TLC

VARIABLES
    fs,            \* the solver binaries on disk: path -> file state
    executors,     \* the Executor(device) calls made so far, in order
    environ,       \* os.environ of the process: name -> value ("<unset>" if absent)
    outfiles,      \* the output containers on disk: path -> container
    run,           \* the run_simulation call in progress (or the last one)
    log,           \* the records the current run_simulation call emitted through logging
    load,          \* the load_simulations call (or the last one) and the aggregate on disk
    scan,          \* the prepare_simulations call (or the last one)
    batch          \* the run_simulations call (or the last one)

vars == <<fs, executors, environ, outfiles, run, log, load, scan, batch>>

-----------------------------------------------------------------------------
(* Bounds *)

\* the number of Executor(device) calls one behaviour makes
MaxExecutors == 2

-----------------------------------------------------------------------------
(* Values *)

None == "<none>"

\* sys.platform values: the three families the code knows (with the
\* variants Python reports for them) and two it does not.
P_linux   == <<"l","i","n","u","x">>
P_linux2  == <<"l","i","n","u","x","2">>
P_win32   == <<"w","i","n","3","2">>
P_cygwin  == <<"c","y","g","w","i","n">>
P_darwin  == <<"d","a","r","w","i","n">>
P_freebsd == <<"f","r","e","e","b","s","d","1","3">>
P_sunos   == <<"s","u","n","o","s","5">>

Platforms == {P_linux, P_linux2, P_win32, P_cygwin, P_darwin, P_freebsd, P_sunos}

\* device arguments: the two the code knows and two it does not
Devices == {"cpu", "gpu", "tpu", "GPU"}

\* str.startswith
StartsWith(s, prefix) ==
    /\ Len(s) >= Len(prefix)
    /\ SubSeq(s, 1, Len(prefix)) = prefix

-----------------------------------------------------------------------------
(* Mode bits *)

\* stat.S_IEXEC = S_IXUSR = 0o100
S_IEXEC == 64

RECURSIVE BitOr(_, _)
BitOr(a, b) ==
    IF a = 0 THEN b
    ELSE IF b = 0 THEN a
    ELSE (IF (a % 2) + (b % 2) > 0 THEN 1 ELSE 0) + 2 * BitOr(a \div 2, b \div 2)

RECURSIVE BitAnd(_, _)
BitAnd(a, b) ==
    IF a = 0 \/ b = 0 THEN 0
    ELSE ((a % 2) * (b % 2)) + 2 * BitAnd(a \div 2, b \div 2)

-----------------------------------------------------------------------------
(* Executor.__init__: resolution of the binary path *)

\* lines 19-30: the folder of the platform family, None when the platform
\* is not supported (NotImplementedError)
PlatformFolderFallsThrough(platform) ==
    IF StartsWith(platform, P_linux) THEN "linux"
    ELSE IF StartsWith(platform, <<"w","i","n">>) \/ StartsWith(platform, P_cygwin)
         THEN "windows"
    ELSE IF StartsWith(platform, P_darwin) THEN "darwin"
    ELSE "linux"

PlatformFolder(platform) ==
    IF StartsWith(platform, P_linux) THEN "linux"
    ELSE IF StartsWith(platform, <<"w","i","n">>) \/ StartsWith(platform, P_cygwin)
         THEN "windows"
    ELSE IF StartsWith(platform, P_darwin) THEN "darwin"
    ELSE None

\* lines 17, 23: binary_name after the platform branch
PlatformBinaryName(platform) ==
    IF PlatformFolder(platform) = "windows"
    THEN <<"kspaceFirstOrder", ".exe">>
    ELSE <<"kspaceFirstOrder">>

\* lines 26-28: on darwin a gpu request is replaced by cpu
EffectiveDeviceNoFallback(platform, device) == device

EffectiveDevice(platform, device) ==
    IF PlatformFolder(platform) = "darwin" /\ device = "gpu" THEN "cpu" ELSE device

\* line 27: the number of warnings.warn calls of the platform branch
PlatformWarnings(platform, device) ==
    IF PlatformFolder(platform) = "darwin" /\ device = "gpu"
    THEN <<"ResourceWarning">>
    ELSE <<>>

\* lines 32-37: the suffix of the device, None when the device is not
\* recognised (ValueError)
DeviceSuffixDefaultsToCpu(device) ==
    IF device = "gpu" THEN "-CUDA" ELSE "-OMP"

DeviceSuffixSameVariant(device) ==
    IF device = "gpu" THEN "-OMP"
    ELSE IF device = "cpu" THEN "-OMP"
    ELSE None

DeviceSuffix(device) ==
    IF device = "gpu" THEN "-CUDA"
    ELSE IF device = "cpu" THEN "-OMP"
    ELSE None

\* lines 39-40: path_of_this_file / 'bin' / binary_folder / binary_name
BinaryPath(binary_folder, binary_name) == <<"bin", binary_folder>> \o binary_name

\* the file name of a path (pathlib's .name), as its pieces
FileName(path) == SubSeq(path, 3, Len(path))

\* the paths the installation may hold a file at
Folders == {"linux", "windows", "darwin"}
FileNames ==
    { <<"kspaceFirstOrder", "-CUDA">>, <<"kspaceFirstOrder", "-OMP">>,
      <<"kspaceFirstOrder", ".exe", "-CUDA">>, <<"kspaceFirstOrder", ".exe", "-OMP">> }
Paths == { BinaryPath(f, n) : f \in Folders, n \in FileNames }

\* A file: absent, or its permission bits, whether the process owns it
\* (chmod of a file of another user fails) and whether it is a program the
\* platform can execute.
Missing == [exists |-> FALSE, mode |-> 0, owned |-> FALSE, valid |-> FALSE]
File(mode, owned, valid) == [exists |-> TRUE, mode |-> mode, owned |-> owned, valid |-> valid]

\* 0o644, 0o755, 0o011 (execute for group and other only), 0o744
FileStates ==
    { Missing,
      File(420, TRUE, TRUE), File(493, TRUE, TRUE), File(9, TRUE, TRUE),
      File(420, FALSE, TRUE), File(484, TRUE, FALSE) }

\* the Executor under construction, or constructed, or whose construction
\* failed, with the warnings its construction emitted and the filesystem
\* calls it made
ExecutorRec(platform, device, pc, error, warned, path) ==
    [platform |-> platform, device |-> device, pc |-> pc, error |-> error,
     warnings |-> warned, binary_path |-> path, fs_calls |-> <<>>]

Constructing == Len(executors) > 0 /\ executors[Len(executors)].pc = "resolved"

\* lines 15-40
Executor_init(platform, device) ==
    /\ Len(executors) < MaxExecutors
    /\ ~Constructing
    /\ LET folder == PlatformFolder(platform)
           name   == PlatformBinaryName(platform)
           dev    == EffectiveDevice(platform, device)
           warned == PlatformWarnings(platform, device)
       IN  IF folder = None
           THEN executors' = Append(executors,
                    ExecutorRec(platform, device, "failed", "NotImplementedError", <<>>, <<>>))
           ELSE IF DeviceSuffix(dev) = None
           THEN executors' = Append(executors,
                    ExecutorRec(platform, device, "failed", "ValueError", warned, <<>>))
           ELSE executors' = Append(executors,
                    ExecutorRec(platform, device, "resolved", None, warned,
                                BinaryPath(folder, Append(name, DeviceSuffix(dev)))))
    /\ UNCHANGED <<fs, environ, outfiles, run, log, load, scan, batch>>

\* line 45: st_mode | stat.S_IEXEC
NewModeUnchanged(mode) == mode

NewMode(mode) == BitOr(mode, S_IEXEC)

\* lines 42-45: stat() of a missing file raises FileNotFoundError, chmod()
\* of a file the process does not own raises PermissionError
make_binary_executable ==
    /\ Constructing
    /\ LET n == Len(executors)
           e == executors[n]
           f == fs[e.binary_path]
       IN  IF ~f.exists
           THEN /\ executors' = [executors EXCEPT ![n].pc = "failed",
                                                  ![n].error = "FileNotFoundError",
                                                  ![n].fs_calls = <<"stat">>]
                /\ fs' = fs
           ELSE IF ~f.owned
           THEN /\ executors' = [executors EXCEPT ![n].pc = "failed",
                                                  ![n].error = "PermissionError",
                                                  ![n].fs_calls = <<"stat", "chmod">>]
                /\ fs' = fs
           ELSE /\ executors' = [executors EXCEPT ![n].pc = "ready",
                                                  ![n].fs_calls = <<"stat", "chmod">>]
                /\ fs' = [fs EXCEPT ![e.binary_path].mode = NewMode(f.mode)]
    /\ UNCHANGED <<environ, outfiles, run, log, load, scan, batch>>

-----------------------------------------------------------------------------
(* Arrays and output containers *)

\* the index tuples of an array of the given shape
RECURSIVE Indices(_)
Indices(shape) ==
    IF shape = <<>> THEN {<<>>}
    ELSE { <<i>> \o r : i \in 1..Head(shape), r \in Indices(Tail(shape)) }

RECURSIVE Digits(_)
Digits(ix) ==
    IF ix = <<>> THEN 0 ELSE 10 * Digits(SubSeq(ix, 1, Len(ix) - 1)) + ix[Len(ix)]

\* an n-dimensional array whose every element tells its own index, so that
\* two arrays are equal only if they hold the same elements at the same places
Array(shape, tag) ==
    [shape |-> shape, data |-> [ix \in Indices(shape) |-> 1000 * tag + Digits(ix)]]

Reverse(s) == [k \in 1..Len(s) |-> s[Len(s) + 1 - k]]

\* a[0] is an IndexError for a 0-dimensional array and for an empty leading axis
CanIndex0(a) == Len(a.shape) >= 1 /\ a.shape[1] >= 1

\* a[0]
Index0(a) ==
    [shape |-> Tail(a.shape),
     data  |-> [ix \in Indices(Tail(a.shape)) |-> a.data[<<1>> \o ix]]]

\* a.T: the axes reversed
Transpose(a) ==
    [shape |-> Reverse(a.shape),
     data  |-> [ix \in Indices(Reverse(a.shape)) |-> a.data[Reverse(ix)]]]

NoArray == Array(<<0>>, 0)

\* An output container: no file, a file that is not an HDF5 container,
\* a container without the dataset 'p', a container with it.
NoFile    == [kind |-> "missing", has_p |-> FALSE, p |-> NoArray]
Corrupt   == [kind |-> "corrupt", has_p |-> FALSE, p |-> NoArray]
NoDataset == [kind |-> "hdf5", has_p |-> FALSE, p |-> NoArray]
WithP(a)  == [kind |-> "hdf5", has_p |-> TRUE, p |-> a]

\* the datasets a solver run may leave: [channels, x, y] with one and with
\* two channels, the same with another extent, a 1-dimensional dataset,
\* a 0-dimensional one
Datasets ==
    { Array(<<1, 2, 3>>, 1), Array(<<2, 2, 3>>, 2), Array(<<1, 3, 2>>, 3),
      Array(<<2>>, 4), Array(<<>>, 5) }

\* what the solver may have written when it ends
SolverOutputs == {Corrupt, NoDataset} \cup { WithP(a) : a \in Datasets }

Containers == {NoFile} \cup SolverOutputs

\* lines 65-66: h5py.File(output_filename, 'r'); np.array(hf['p'])[0].T
OpenErrorCorruptOpens(c) ==
    IF c.kind = "missing" THEN "FileNotFoundError" ELSE None

OpenError(c) ==
    IF c.kind = "missing" THEN "FileNotFoundError"
    ELSE IF c.kind = "corrupt" THEN "OSError"
    ELSE None

DatasetError(c) ==
    IF ~c.has_p THEN "KeyError"
    ELSE IF ~CanIndex0(c.p) THEN "IndexError"
    ELSE None

SensorData(c) == Transpose(Index0(c.p))

-----------------------------------------------------------------------------
(* Executor.run_simulation *)

EnvNames == {"LD_LIBRARY_PATH", "OMP_PLACES", "OMP_PROC_BIND", "PATH"}

Unset == "<unset>"

\* lines 48-52
env_variables ==
    [n \in {"LD_LIBRARY_PATH", "OMP_PLACES", "OMP_PROC_BIND"} |->
        IF n = "LD_LIBRARY_PATH" THEN ""
        ELSE IF n = "OMP_PLACES" THEN "cores"
        ELSE "SPREAD"]

\* line 53: os.environ.update(env_variables)
EnvironUpdateReplacesAll(env, upd) ==
    [n \in EnvNames |-> IF n \in DOMAIN upd THEN upd[n] ELSE Unset]

EnvironUpdate(env, upd) ==
    [n \in EnvNames |-> IF n \in DOMAIN upd THEN upd[n] ELSE env[n]]

\* the environments a call may find
InitialEnvirons ==
    { [n \in EnvNames |-> IF n = "PATH" THEN "/usr/bin" ELSE Unset],
      [n \in EnvNames |->
          IF n = "PATH" THEN "/usr/bin"
          ELSE IF n = "LD_LIBRARY_PATH" THEN "/opt/cuda/lib"
          ELSE IF n = "OMP_PLACES" THEN "threads"
          ELSE "CLOSE"] }

\* the value of os.system(command): an int, or the MagicMock a test patches
\* os.system with
IntCode(v) == [mock |-> FALSE, value |-> v]
MagicMock  == [mock |-> TRUE, value |-> 0]

\* the exit codes a solver that ran may end with
ExitCodes == {0, 1, 127}

\* os.system on POSIX returns the wait status: the exit code in the high byte
WaitStatus(exit_code) == exit_code * 256

\* whether the shell can start the binary at all
CanExecute(f) ==
    /\ f.exists
    /\ f.valid
    /\ IF f.owned THEN BitAnd(f.mode, 64) = 64 ELSE BitAnd(f.mode, 1) = 1

\* what the shell reports when it cannot: 127 command not found,
\* 126 found but not executable
ShellFailure(f) == IF ~f.exists THEN WaitStatus(127) ELSE WaitStatus(126)

\* line 60: `return_code == 0` (a MagicMock is equal to itself only)
ReturnCodeIsZero(rc) == ~rc.mock /\ rc.value = 0

RunRec(pc, out, rc, launched, wrote, handle, result, error) ==
    [pc |-> pc, self |-> 0, output_filename |-> out, return_code |-> rc, launched |-> launched,
     wrote |-> wrote, handle |-> handle, result |-> result, error |-> error]

IdleRun == RunRec("idle", None, IntCode(0), FALSE, FALSE, FALSE, NoArray, None)

ReadyExecutors == { k \in 1..Len(executors) : executors[k].pc = "ready" }

RunOver == run.pc \in {"idle", "returned", "raised"}

\* lines 47-53: the call starts and sets the three variables
run_simulation_start(k, output_filename) ==
    /\ k \in ReadyExecutors
    /\ RunOver
    /\ load.pc = "idle"
    /\ environ' = EnvironUpdate(environ, env_variables)
    /\ run' = [IdleRun EXCEPT !.pc = "env_set", !.output_filename = output_filename,
                              !.self = k]
    /\ log' = <<>>
    /\ UNCHANGED <<fs, executors, outfiles, load, scan, batch>>

\* lines 55-57: os.system(command), patched by a test
run_simulation_system_mocked ==
    /\ run.pc = "env_set"
    /\ run' = [run EXCEPT !.pc = "launched", !.return_code = MagicMock]
    /\ UNCHANGED <<fs, executors, environ, outfiles, log, load, scan, batch>>

\* lines 55-57: os.system(command) when the shell cannot start the binary
run_simulation_system_no_launch ==
    /\ run.pc = "env_set"
    /\ ~CanExecute(fs[executors[run.self].binary_path])
    /\ run' = [run EXCEPT !.pc = "launched",
                          !.return_code =
                              IntCode(ShellFailure(fs[executors[run.self].binary_path]))]
    /\ UNCHANGED <<fs, executors, environ, outfiles, log, load, scan, batch>>

\* lines 55-57: os.system(command) when the solver runs: it ends with some
\* exit code, having written an output container or not
run_simulation_system_ran(exit_code, written) ==
    /\ run.pc = "env_set"
    /\ CanExecute(fs[executors[run.self].binary_path])
    /\ run' = [run EXCEPT !.pc = "launched",
                          !.return_code = IntCode(WaitStatus(exit_code)),
                          !.launched = TRUE,
                          !.wrote = (written # NoFile)]
    /\ outfiles' = IF written = NoFile THEN outfiles
                   ELSE [outfiles EXCEPT ![run.output_filename] = written]
    /\ UNCHANGED <<fs, executors, environ, log, load, scan, batch>>

\* lines 61-63: what the except clause logs; it never raises again
SwallowedLog(rc) ==
    IF rc.mock
    THEN <<[level |-> "INFO", msg |-> "Skipping AssertionError in testing."]>>
    ELSE <<>>

\* lines 59-63: the assertion on the return code and its handler
run_simulation_check ==
    /\ run.pc = "launched"
    /\ IF ReturnCodeIsZero(run.return_code)
       THEN /\ run' = [run EXCEPT !.pc = "checked"]
            /\ log' = log
       ELSE /\ run' = [run EXCEPT !.pc = "checked"]
            /\ log' = log \o SwallowedLog(run.return_code)
    /\ UNCHANGED <<fs, executors, environ, outfiles, load, scan, batch>>

\* line 65: h5py.File(output_filename, 'r')
run_simulation_open ==
    /\ run.pc = "checked"
    /\ LET c == outfiles[run.output_filename]
       IN  IF OpenError(c) # None
           THEN run' = [run EXCEPT !.pc = "raised", !.error = OpenError(c)]
           ELSE run' = [run EXCEPT !.pc = "opened", !.handle = TRUE]
    /\ UNCHANGED <<fs, executors, environ, outfiles, log, load, scan, batch>>

\* whether the file is still open once the block of the with statement has
\* been left, by an exception (raised) or at its end
HandleLeftOpenOnError(raised) == raised

\* lines 65-68: h5py.File is a context manager, its exit closes the file
\* whether the block raised or not
WithExit(raised) == FALSE

\* lines 66-68: the dataset is read inside the with block
run_simulation_read ==
    /\ run.pc = "opened"
    /\ LET c == outfiles[run.output_filename]
       IN  IF DatasetError(c) # None
           THEN run' = [run EXCEPT !.pc = "raised", !.handle = WithExit(TRUE),
                                   !.error = DatasetError(c)]
           ELSE run' = [run EXCEPT !.pc = "returned", !.handle = WithExit(FALSE),
                                   !.result = SensorData(c)]
    /\ UNCHANGED <<fs, executors, environ, outfiles, log, load, scan, batch>>

-----------------------------------------------------------------------------
(* examples/simulation.py: load_simulations *)

\* range(1, 97): the number of scan lines, 96 in the example
NumScanLines == 3

Units == 1..NumScanLines

RECURSIVE SumOver(_, _, _)
SumOver(a, n, ix) ==
    IF n = 0 THEN 0 ELSE a.data[<<n>> \o ix] + SumOver(a, n - 1, ix)

\* line 214: not_transducer.combine_sensor_data, the recombination across
\* the transducer elements (the leading axis of its argument)
CombineError(a) == IF Len(a.shape) = 0 THEN "IndexError" ELSE None

combine_sensor_data(a) ==
    [shape |-> Tail(a.shape),
     data  |-> [ix \in Indices(Tail(a.shape)) |-> SumOver(a, a.shape[1], ix)]]

\* line 217: np.stack(simulation_data, axis=0) raises ValueError unless all
\* the arrays have the same shape
StackError(arrays) ==
    IF \E j, k \in 1..Len(arrays) : arrays[j].shape # arrays[k].shape
    THEN "ValueError" ELSE None

StackReversed(arrays) ==
    [shape |-> <<Len(arrays)>> \o arrays[1].shape,
     data  |-> [ix \in Indices(<<Len(arrays)>> \o arrays[1].shape) |->
                   arrays[Len(arrays) + 1 - ix[1]].data[Tail(ix)]]]

Stack(arrays) ==
    [shape |-> <<Len(arrays)>> \o arrays[1].shape,
     data  |-> [ix \in Indices(<<Len(arrays)>> \o arrays[1].shape) |->
                   arrays[ix[1]].data[Tail(ix)]]]

\* the call (its position, its locals, the files it has opened) and the
\* aggregated container '../sensor_data_py.mat': whether a call has
\* written it, the dataset it holds and the creation time of its header
LoadRec(pc, i, data, handle, opened, error, written, saved) ==
    [pc |-> pc, i |-> i, simulation_data |-> data, handle |-> handle,
     opened |-> opened, error |-> error, written |-> written, saved |-> saved,
     header |-> 0]

IdleLoad == LoadRec("idle", 0, <<>>, FALSE, <<>>, None, FALSE, NoArray)

\* the times of the clock that scipy.io.savemat reads for the header of
\* the MAT-file ('Created on: ...')
Times == {1, 2}

\* line 206: simulation_data = []
FreshListKeepsOld(l) == l.simulation_data

FreshList(l) == <<>>

\* lines 205-207: prepare_simulations(True) returns its transducer at line
\* 121; the loop starts at index 1 with an empty list.  The call may follow
\* an earlier one (load-only mode run again).
load_simulations_start ==
    /\ load.pc \in {"idle", "done", "raised"}
    /\ RunOver
    /\ load' = [load EXCEPT !.pc = "loop", !.i = 1, !.simulation_data = FreshList(load),
                            !.opened = <<>>, !.error = None, !.handle = FALSE]
    /\ UNCHANGED <<fs, executors, environ, outfiles, run, log, scan, batch>>

\* lines 207-212: the next index, h5py.File(output_filename, 'r')
load_simulations_open ==
    /\ load.pc = "loop"
    /\ load.i <= NumScanLines
    /\ LET c == outfiles[load.i]
       IN  IF OpenError(c) # None
           THEN load' = [load EXCEPT !.pc = "raised", !.error = OpenError(c),
                                     !.opened = Append(load.opened, load.i)]
           ELSE load' = [load EXCEPT !.pc = "opened", !.handle = TRUE,
                                     !.opened = Append(load.opened, load.i)]
    /\ UNCHANGED <<fs, executors, environ, outfiles, run, log, scan, batch>>

\* lines 213-215: read, combine, append; the with block closes the file
load_simulations_read ==
    /\ load.pc = "opened"
    /\ LET c == outfiles[load.i]
       IN  IF DatasetError(c) # None
           THEN load' = [load EXCEPT !.pc = "raised", !.handle = WithExit(TRUE),
                                     !.error = DatasetError(c)]
           ELSE IF CombineError(SensorData(c)) # None
           THEN load' = [load EXCEPT !.pc = "raised", !.handle = WithExit(TRUE),
                                     !.error = CombineError(SensorData(c))]
           ELSE load' = [load EXCEPT !.pc = "loop", !.handle = WithExit(FALSE),
                                     !.i = load.i + 1,
                                     !.simulation_data =
                                         Append(load.simulation_data,
                                                combine_sensor_data(SensorData(c)))]
    /\ UNCHANGED <<fs, executors, environ, outfiles, run, log, scan, batch>>

\* line 217: np.stack after the loop
load_simulations_stack ==
    /\ load.pc = "loop"
    /\ load.i > NumScanLines
    /\ IF StackError(load.simulation_data) # None
       THEN load' = [load EXCEPT !.pc = "raised",
                                 !.error = StackError(load.simulation_data)]
       ELSE load' = [load EXCEPT !.pc = "stacked",
                                 !.simulation_data = <<Stack(load.simulation_data)>>]
    /\ UNCHANGED <<fs, executors, environ, outfiles, run, log, scan, batch>>

\* line 218: scipy.io.savemat writes the dataset under its key and a header
\* that holds the time of writing
load_simulations_save(now) ==
    /\ load.pc = "stacked"
    /\ load' = [load EXCEPT !.pc = "done", !.written = TRUE,
                            !.saved = load.simulation_data[1],
                            !.header = now]
    /\ UNCHANGED <<fs, executors, environ, outfiles, run, log, scan, batch>>

-----------------------------------------------------------------------------
(* examples/simulation.py: prepare_simulations and run_simulations *)

\* line 127
number_scan_lines == 96

\* line 27
PML_Y_SIZE == 10

\* line 32: the width of the window, in grid points
Ny == 128 - 2 * PML_Y_SIZE

\* line 88: transducer.element_width, in grid points
element_width == 2

\* the call: its position, its locals, the windows it has sliced, the names
\* it has assigned to, the scan lines the solver has been run on
ScanRec(pc, index, position, windows, invoked, error) ==
    [pc |-> pc, scan_line_index |-> index, medium_position |-> position,
     windows |-> windows, invoked |-> invoked, error |-> error, assigned |-> {}]

IdleScan == ScanRec("idle", 0, 0, <<>>, <<>>, None)

\* lines 12-149: with return_variables_only the call returns at line 121,
\* before the loop; otherwise (RUN_SIMULATION is True) medium_position is
\* set to 0 and the loop starts at scan line 1
prepare_simulations_start(return_variables_only) ==
    /\ scan.pc \in {"idle", "returned", "done", "raised"}
    /\ scan' = IF return_variables_only
               THEN [IdleScan EXCEPT !.pc = "returned"]
               ELSE [IdleScan EXCEPT !.pc = "loop", !.scan_line_index = 1,
                                     !.medium_position = 0]
    /\ UNCHANGED <<fs, executors, environ, outfiles, run, log, load, batch>>

\* lines 155-156: the bounds of [:, medium_position:medium_position + Ny, :]
Window(position) == <<position, position + Ny>>

\* lines 149-156: the next scan line slices its window out of the two maps
prepare_simulations_slice ==
    /\ scan.pc = "loop"
    /\ scan.scan_line_index <= number_scan_lines
    /\ scan' = [scan EXCEPT !.pc = "sliced",
                            !.windows = Append(scan.windows, Window(scan.medium_position)),
                            !.assigned = scan.assigned \cup
                                            {"medium.sound_speed", "medium.density"}]
    /\ UNCHANGED <<fs, executors, environ, outfiles, run, log, load, batch>>

\* line 149: the loop ends after the last scan line
prepare_simulations_end ==
    /\ scan.pc = "loop"
    /\ scan.scan_line_index > number_scan_lines
    /\ scan' = [scan EXCEPT !.pc = "done"]
    /\ UNCHANGED <<fs, executors, environ, outfiles, run, log, load, batch>>

\* line 171: kspaceFirstOrder3DC writes the input container of the scan
\* line and runs the solver on it, once, and returns when the solver has
\* ended
kspaceFirstOrder3DC(invoked, index) == Append(invoked, index)

\* line 180
AdvanceByWindow(position) == position + Ny

Advance(position) == position + element_width

\* lines 159-180: the solver call of the scan line, which may raise, and
\* the advance of medium_position
prepare_simulations_solve(ok) ==
    /\ scan.pc = "sliced"
    /\ scan' = IF ok
               THEN [scan EXCEPT !.pc = "loop",
                                 !.invoked = kspaceFirstOrder3DC(scan.invoked,
                                                                 scan.scan_line_index),
                                 !.medium_position = Advance(scan.medium_position),
                                 !.scan_line_index = scan.scan_line_index + 1]
               ELSE [scan EXCEPT !.pc = "raised", !.error = "Exception",
                                 !.invoked = kspaceFirstOrder3DC(scan.invoked,
                                                                 scan.scan_line_index)]
    /\ UNCHANGED <<fs, executors, environ, outfiles, run, log, load, batch>>

BatchRec(pc, i, printed, invoked) ==
    [pc |-> pc, i |-> i, printed |-> printed, invoked |-> invoked]

IdleBatch == BatchRec("idle", 0, <<>>, <<>>)

\* lines 186-192: range(1, 97)
run_simulations_start ==
    /\ batch.pc \in {"idle", "done"}
    /\ batch' = BatchRec("loop", 1, <<>>, <<>>)
    /\ UNCHANGED <<fs, executors, environ, outfiles, run, log, load, scan>>

\* lines 193-201: the command of index i is printed; the os.system call of
\* line 200 is a comment; break leaves the loop
run_simulations_iteration ==
    /\ batch.pc = "loop"
    /\ batch.i <= number_scan_lines
    /\ batch' = [batch EXCEPT !.pc = "done", !.printed = Append(batch.printed, batch.i)]
    /\ UNCHANGED <<fs, executors, environ, outfiles, run, log, load, scan>>

-----------------------------------------------------------------------------
(* Specifications *)

\* every binary of the installation in the same state
UniformFs(st) == [p \in Paths |-> st]

\* the construction of Executors: no Executor exists yet
InitResolve ==
    /\ \E st \in FileStates : fs = UniformFs(st)
    /\ executors = <<>>
    /\ environ \in InitialEnvirons
    /\ outfiles = [o \in {"output.h5"} |-> NoFile]
    /\ run = IdleRun
    /\ log = <<>>
    /\ load = IdleLoad
    /\ scan = IdleScan
    /\ batch = IdleBatch

NextResolve ==
    \/ \E platform \in Platforms, device \in Devices : Executor_init(platform, device)
    \/ make_binary_executable

SpecResolve == InitResolve /\ [][NextResolve]_vars

\* what a successful construction leaves for the given platform and device
Constructed(platform, device) ==
    [ExecutorRec(platform, device, "ready", None, PlatformWarnings(platform, device),
                 BinaryPath(PlatformFolder(platform),
                            Append(PlatformBinaryName(platform),
                                   DeviceSuffix(EffectiveDevice(platform, device)))))
     EXCEPT !.fs_calls = <<"stat", "chmod">>]

\* run_simulation: an Executor has been constructed (its binary had its
\* owner execute bit set then); since then the file may have been removed
\* or replaced, so it is in any state when the call starts.  An output
\* container of an earlier run may lie at the output path.
Init ==
    /\ \E platform \in {P_linux, P_win32, P_darwin}, device \in {"cpu", "gpu"} :
          executors = <<Constructed(platform, device)>>
    /\ \E st \in FileStates :
          fs = UniformFs(IF st.exists /\ st.owned
                         THEN [st EXCEPT !.mode = NewMode(st.mode)] ELSE st)
    /\ environ \in InitialEnvirons
    /\ outfiles \in [{"output.h5"} -> Containers]
    /\ run = IdleRun
    /\ log = <<>>
    /\ load = IdleLoad
    /\ scan = IdleScan
    /\ batch = IdleBatch

Next ==
    \/ \E k \in 1..Len(executors), o \in DOMAIN outfiles : run_simulation_start(k, o)
    \/ run_simulation_system_mocked
    \/ run_simulation_system_no_launch
    \/ \E e \in ExitCodes, w \in {NoFile} \cup SolverOutputs :
          run_simulation_system_ran(e, w)
    \/ run_simulation_check
    \/ run_simulation_open
    \/ run_simulation_read

Spec == Init /\ [][Next]_vars

\* load_simulations: the output containers of the units are on disk, or not
InitLoad ==
    /\ fs = UniformFs(Missing)
    /\ executors = <<>>
    /\ environ \in InitialEnvirons
    /\ outfiles \in [Units -> Containers]
    /\ run = IdleRun
    /\ log = <<>>
    /\ load = IdleLoad
    /\ scan = IdleScan
    /\ batch = IdleBatch

NextLoad ==
    \/ load_simulations_start
    \/ load_simulations_open
    \/ load_simulations_read
    \/ load_simulations_stack
    \/ \E now \in Times : load_simulations_save(now)

SpecLoad == InitLoad /\ [][NextLoad]_vars

\* run_simulation and load_simulations on the same output containers: the
\* units are run first, with no output on disk, and loaded afterwards
InitRead ==
    /\ executors = <<Constructed(P_linux, "cpu")>>
    /\ \E st \in FileStates :
          fs = UniformFs(IF st.exists /\ st.owned
                         THEN [st EXCEPT !.mode = NewMode(st.mode)] ELSE st)
    /\ environ = [n \in EnvNames |-> Unset]
    /\ outfiles = [u \in Units |-> NoFile]
    /\ run = IdleRun
    /\ log = <<>>
    /\ load = IdleLoad
    /\ scan = IdleScan
    /\ batch = IdleBatch

NextRead == Next \/ NextLoad

SpecRead == InitRead /\ [][NextRead]_vars

\* prepare_simulations and run_simulations
InitScan ==
    /\ fs = UniformFs(Missing)
    /\ executors = <<>>
    /\ environ \in InitialEnvirons
    /\ outfiles = [o \in {"output.h5"} |-> NoFile]
    /\ run = IdleRun
    /\ log = <<>>
    /\ load = IdleLoad
    /\ scan = IdleScan
    /\ batch = IdleBatch

NextScan ==
    \/ \E return_variables_only \in BOOLEAN :
          prepare_simulations_start(return_variables_only)
    \/ prepare_simulations_slice
    \/ \E ok \in BOOLEAN : prepare_simulations_solve(ok)
    \/ prepare_simulations_end
    \/ run_simulations_start
    \/ run_simulations_iteration

SpecScan == InitScan /\ [][NextScan]_vars

-----------------------------------------------------------------------------
(* Claims about the construction of an Executor (SpecResolve) *)

Range(s) == { s[k] : k \in 1..Len(s) }

\* the platform family of a sys.platform value, as the claims name it
Family(platform) ==
    IF StartsWith(platform, <<"l","i","n","u","x">>) THEN "Linux"
    ELSE IF StartsWith(platform, <<"w","i","n">>) THEN "Windows"
    ELSE IF StartsWith(platform, <<"c","y","g","w","i","n">>) THEN "Windows"
    ELSE IF StartsWith(platform, <<"d","a","r","w","i","n">>) THEN "Darwin"
    ELSE "Other"

Calls == 1..Len(executors)

\* C3 as stated: once construction has succeeded, the binary has the
\* execute bit for owner, group and other (0o111).
C3_AllExecuteBits ==
    \A k \in Calls :
        executors[k].pc = "ready" =>
            BitAnd(fs[executors[k].binary_path].mode, 73) = 73

\* C3 as amended: once construction has succeeded, the binary exists and has
\* the owner execute bit (0o100); and construction changes nothing else: a
\* step that changes a file adds exactly that bit to a file that lacked it
\* and leaves every other bit, every other attribute and every other file
\* as they were.
C3_OwnerExecuteBit ==
    /\ [](\A k \in Calls :
            executors[k].pc = "ready" =>
                /\ fs[executors[k].binary_path].exists
                /\ BitAnd(fs[executors[k].binary_path].mode, 64) = 64)
    /\ [][\A p \in Paths :
            fs'[p] # fs[p] =>
                /\ Constructing
                /\ p = executors[Len(executors)].binary_path
                /\ BitAnd(fs[p].mode, 64) = 0
                /\ fs'[p] = [fs[p] EXCEPT !.mode = fs[p].mode + 64]]_vars

\* a binary with mode 0o644 has been made 0o744: the owner bit was added,
\* the group and other bits were not
C3_Witness ==
    \E k \in Calls :
        /\ executors[k].pc = "ready"
        /\ fs[executors[k].binary_path].mode = 484

\* C4: on Darwin with device gpu, construction does not fail because of the
\* device (no ValueError, no NotImplementedError), exactly one warning is
\* emitted, and the path resolved is the CPU variant of the darwin folder,
\* the very path a (Darwin, cpu) construction resolves.
C4_DarwinGpuFallsBackToCpu ==
    \A k \in Calls :
        (Family(executors[k].platform) = "Darwin" /\ executors[k].device = "gpu") =>
            /\ executors[k].error \notin {"ValueError", "NotImplementedError"}
            /\ Len(executors[k].warnings) = 1
            /\ executors[k].binary_path = <<"bin", "darwin", "kspaceFirstOrder", "-OMP">>
            /\ \A j \in Calls :
                  (Family(executors[j].platform) = "Darwin" /\ executors[j].device = "cpu")
                      => /\ executors[j].binary_path = executors[k].binary_path
                         /\ executors[j].warnings = <<>>

\* a (darwin, gpu) and a (darwin, cpu) Executor have both been constructed
C4_Witness ==
    \E j, k \in Calls :
        /\ executors[k].platform = P_darwin /\ executors[k].device = "gpu"
        /\ executors[k].pc = "ready"
        /\ executors[j].platform = P_darwin /\ executors[j].device = "cpu"
        /\ executors[j].pc = "ready"

\* C5: on a platform that is none of Linux, Windows/Cygwin, Darwin, every
\* construction fails with NotImplementedError whatever the device, having
\* resolved no path and made no filesystem call (no stat, no chmod).
C5_UnsupportedPlatformFails ==
    \A k \in Calls :
        Family(executors[k].platform) = "Other" =>
            /\ executors[k].pc = "failed"
            /\ executors[k].error = "NotImplementedError"
            /\ executors[k].fs_calls = <<>>
            /\ executors[k].binary_path = <<>>

\* constructions on freebsd and on sunos have failed, with a known and with
\* an unknown device
C5_Witness ==
    \E j, k \in Calls :
        /\ executors[j].platform = P_freebsd /\ executors[j].device = "gpu"
        /\ executors[j].pc = "failed"
        /\ executors[k].platform = P_sunos /\ executors[k].device = "tpu"
        /\ executors[k].pc = "failed"

\* C6: on a supported platform, a device that is neither cpu nor gpu makes
\* construction fail with ValueError before any filesystem call on the
\* binary; no warning is emitted, no Executor is produced, and no
\* run_simulation call can start on it.
C6_InvalidDeviceFails ==
    \A k \in Calls :
        (Family(executors[k].platform) # "Other"
            /\ executors[k].device \notin {"cpu", "gpu"}) =>
            /\ executors[k].pc = "failed"
            /\ executors[k].error = "ValueError"
            /\ executors[k].fs_calls = <<>>
            /\ executors[k].warnings = <<>>
            /\ executors[k].binary_path = <<>>
            /\ ~ ENABLED run_simulation_start(k, "output.h5")

\* constructions with the devices 'GPU' and 'tpu' have failed on darwin and
\* on cygwin
C6_Witness ==
    \E j, k \in Calls :
        /\ executors[j].platform = P_darwin /\ executors[j].device = "GPU"
        /\ executors[j].pc = "failed"
        /\ executors[k].platform = P_cygwin /\ executors[k].device = "tpu"
        /\ executors[k].pc = "failed"

\* the device suffix the claims expect in the file name
ExpectedSuffix(device) == IF device = "gpu" THEN "-CUDA" ELSE "-OMP"

\* a construction C7 is about: a supported platform, cpu or gpu, not (Darwin, gpu)
C7_Covered(k) ==
    /\ Family(executors[k].platform) \in {"Linux", "Windows", "Darwin"}
    /\ executors[k].device \in {"cpu", "gpu"}
    /\ ~(Family(executors[k].platform) = "Darwin" /\ executors[k].device = "gpu")

\* C7: over {Linux, Windows, Darwin} x {cpu, gpu} without (Darwin, gpu), every
\* construction resolves a path whose file name contains the suffix of its
\* device, and two constructions of different (family, device) resolve
\* different paths.
C7_DistinctPathsWithSuffix ==
    \A j, k \in Calls :
        (C7_Covered(j) /\ C7_Covered(k)) =>
            /\ executors[k].binary_path # <<>>
            /\ ExpectedSuffix(executors[k].device) \in Range(FileName(executors[k].binary_path))
            /\ (<<Family(executors[j].platform), executors[j].device>>
                    # <<Family(executors[k].platform), executors[k].device>>)
                  => executors[j].binary_path # executors[k].binary_path

\* (linux, gpu) and (win32, cpu) Executors have both been constructed
C7_Witness ==
    \E j, k \in Calls :
        /\ executors[j].platform = P_linux /\ executors[j].device = "gpu"
        /\ executors[k].platform = P_win32 /\ executors[k].device = "cpu"
        /\ executors[j].pc = "ready" /\ executors[k].pc = "ready"

-----------------------------------------------------------------------------
(* Claims about run_simulation (Spec) *)

\* the call has ended: it returned a result or raised
RunEnded == run.pc \in {"returned", "raised"}

\* the errors of reading the output container, which a call whose solver
\* ran and wrote nothing useful ends with as well
ReadErrors == {"FileNotFoundError", "OSError", "KeyError", "IndexError"}

\* the shell could not start the solver of this call
LaunchFailed == ~run.return_code.mock /\ ~run.launched

\* C1 as stated: a call whose solver could not be launched ends with an error
\* of its own, not with a result and not with the error a call ends with
\* whose solver ran, returned non-zero and left no readable output.
C1_LaunchFailureIsDistinctAndFatal ==
    (RunEnded /\ LaunchFailed) =>
        /\ run.pc = "raised"
        /\ run.error \notin ReadErrors

\* the binary is missing, a container of an earlier run lies at the output
\* path, and the call returns that container's data
C1_Witness ==
    /\ RunEnded /\ LaunchFailed
    /\ ~fs[executors[run.self].binary_path].exists
    /\ run.pc = "returned"

\* a container the read of lines 65-66 succeeds on
WellFormed(c) == c.kind = "hdf5" /\ c.has_p /\ Len(c.p.shape) >= 1 /\ c.p.shape[1] >= 1

\* C2 as stated: a call whose solver returned non-zero and whose output path
\* holds a well-formed container returns the array read from it and has
\* logged a warning.
C2_NonZeroExitWarnsAndReturns ==
    (RunEnded /\ ~run.return_code.mock /\ run.return_code.value # 0
        /\ WellFormed(outfiles[run.output_filename])) =>
        /\ run.pc = "returned"
        /\ run.result = Transpose(Index0(outfiles[run.output_filename].p))
        /\ \E n \in 1..Len(log) : log[n].level = "WARNING"

\* the solver ran, ended with exit code 1 having written a well-formed
\* container, and the call returned
C2_Witness ==
    /\ run.pc = "returned"
    /\ run.launched /\ run.wrote
    /\ run.return_code = IntCode(256)
    /\ log = <<>>

\* C10: once the solver has completed, with a zero or a non-zero status, a
\* call whose output path holds no file, or a file that is not a readable
\* container, opens nothing and returns nothing: it raises the error of the
\* failed open (FileNotFoundError, OSError).
C10_MissingOutputPropagates ==
    (run.pc \in {"opened", "returned", "raised"}
        /\ outfiles[run.output_filename].kind \in {"missing", "corrupt"}) =>
        /\ run.pc = "raised"
        /\ run.error = (IF outfiles[run.output_filename].kind = "missing"
                        THEN "FileNotFoundError" ELSE "OSError")
        /\ ~run.handle

\* the solver ran and ended with a non-zero status without writing, and
\* the call raised
C10_Witness ==
    /\ run.pc = "raised"
    /\ run.launched /\ ~run.wrote
    /\ run.return_code.value # 0
    /\ outfiles[run.output_filename] = NoFile
    /\ run.error = "FileNotFoundError"

-----------------------------------------------------------------------------
(* Claims about load_simulations (SpecLoad) *)

\* the result of unit k: channel 0 of its dataset, transposed, recombined
UnitResult(k) == combine_sensor_data(Transpose(Index0(outfiles[k].p)))

\* C8: when the load loop over 1..N has completed and the aggregate has been
\* saved, the saved dataset has exactly N entries along its leading axis
\* and its entry k is the result of the output container of unit k, for
\* every k in 1..N (index 1 first).
C8_AggregateInIndexOrder ==
    load.pc = "done" =>
        /\ load.written
        /\ Len(load.saved.shape) >= 1
        /\ load.saved.shape[1] = NumScanLines
        /\ Len(load.opened) = NumScanLines
        /\ \A k \in Units :
              /\ load.opened[k] = k
              /\ Tail(load.saved.shape) = UnitResult(k).shape
              /\ \A ix \in Indices(UnitResult(k).shape) :
                    load.saved.data[<<k>> \o ix] = UnitResult(k).data[ix]

\* the loop completed over containers that differ between the first and
\* the last unit, so that the order of the entries shows
C8_Witness ==
    /\ load.pc = "done"
    /\ outfiles[1].p = Array(<<1, 2, 3>>, 1)
    /\ outfiles[NumScanLines].p = Array(<<2, 2, 3>>, 2)
    /\ load.saved.data[<<1, 1>>] # load.saved.data[<<NumScanLines, 1>>]

\* the error the read of unit k ends with, None when it succeeds
UnitReadError(k) ==
    IF outfiles[k].kind = "missing" THEN "FileNotFoundError"
    ELSE IF outfiles[k].kind = "corrupt" THEN "OSError"
    ELSE IF ~outfiles[k].has_p THEN "KeyError"
    ELSE IF Len(outfiles[k].p.shape) = 0 \/ outfiles[k].p.shape[1] = 0 THEN "IndexError"
    ELSE CombineError(Transpose(Index0(outfiles[k].p)))

\* unit i is the first unit whose read fails
FirstReadFailure(i) ==
    /\ UnitReadError(i) # None
    /\ \A k \in 1..(i - 1) : UnitReadError(k) = None

\* every unit reads, and unit i is the first whose result has another
\* shape than the result of unit 1
FirstShapeMismatch(i) ==
    /\ \A k \in Units : UnitReadError(k) = None
    /\ UnitResult(i).shape # UnitResult(1).shape
    /\ \A k \in 1..(i - 1) : UnitResult(k).shape = UnitResult(1).shape

LoadHaltedAt(i) ==
    /\ \A n \in 1..Len(load.opened) : load.opened[n] <= i
    /\ load.pc \notin {"stacked", "done"}
    /\ ~load.written
    /\ (i \in Range(load.opened) /\ load.pc # "opened") =>
          /\ load.pc = "raised"
          /\ load.error # None
          /\ ~load.handle

\* C9 as stated: if the read of unit i fails (container missing, dataset
\* absent, or shapes inconsistent), no unit after i is read, the error
\* reaches the caller and no aggregate is written.
C9_HaltsAtFailingUnit ==
    \A i \in Units :
        (FirstReadFailure(i) \/ FirstShapeMismatch(i)) => LoadHaltedAt(i)

\* C9 as amended: if the read of unit i fails (container missing or
\* unreadable, dataset absent or not indexable, recombination failing), the
\* loop halts at unit i: no unit after i is opened, the call raises that
\* unit's error and no aggregate is written.  If the read of every unit
\* succeeds but the shapes of the results differ, all N units have been
\* read when np.stack raises ValueError after the loop, and no aggregate is
\* written either.
C9_HaltsOrFailsAtStack ==
    \A i \in Units :
        /\ FirstReadFailure(i) =>
              /\ LoadHaltedAt(i)
              /\ load.pc = "raised" => load.error = UnitReadError(i)
        /\ FirstShapeMismatch(i) =>
              /\ load.pc \notin {"stacked", "done"}
              /\ ~load.written
              /\ load.pc = "raised" =>
                    /\ load.error = "ValueError"
                    /\ Len(load.opened) = NumScanLines

\* unit 1 reads, unit 2 has no dataset: the call has raised at unit 2
C9_Witness ==
    /\ FirstReadFailure(2)
    /\ outfiles[2] = NoDataset
    /\ load.pc = "raised"
    /\ load.opened = <<1, 2>>

-----------------------------------------------------------------------------
(* Further claims about run_simulation (Spec) *)

\* the dataset 'p' is absent, or has fewer than two dimensions (no channel
\* axis, or nothing but the channel axis)
Malformed(c) == c.kind = "hdf5" /\ (~c.has_p \/ Len(c.p.shape) < 2)

\* C11 as stated: a read of a container whose dataset 'p' is absent or has
\* fewer than two dimensions fails with the error of a malformed output;
\* the call returns no value.
C11_MalformedOutputFails ==
    (RunEnded /\ Malformed(outfiles[run.output_filename])) =>
        /\ run.pc = "raised"
        /\ run.error \in {"KeyError", "IndexError"}

\* the output container holds a 1-dimensional dataset and the call has
\* returned (its element 0, a scalar)
C11_Witness ==
    /\ run.pc = "returned"
    /\ outfiles[run.output_filename] = WithP(Array(<<2>>, 4))
    /\ run.result.shape = <<>>

\* C12: from the moment a run_simulation call has set them, before the
\* solver is launched, LD_LIBRARY_PATH is empty, OMP_PLACES is 'cores' and
\* OMP_PROC_BIND is 'SPREAD' in os.environ, during the call and after it has
\* returned or raised; and no step changes any other environment variable.
C12_EnvironmentSetAndKept ==
    /\ [](run.pc # "idle" =>
            /\ environ["LD_LIBRARY_PATH"] = ""
            /\ environ["OMP_PLACES"] = "cores"
            /\ environ["OMP_PROC_BIND"] = "SPREAD")
    /\ [][\A n \in EnvNames \ {"LD_LIBRARY_PATH", "OMP_PLACES", "OMP_PROC_BIND"} :
            environ'[n] = environ[n]]_vars

\* a call that found other values in the three variables has raised, and
\* the three variables hold the values of the call
C12_Witness ==
    /\ run.pc = "raised"
    /\ environ["LD_LIBRARY_PATH"] = ""
    /\ environ["OMP_PLACES"] = "cores"
    /\ environ["OMP_PROC_BIND"] = "SPREAD"
    /\ environ["PATH"] = "/usr/bin"

\* C18 as stated: a call returns only what the solver launched in that very
\* call has written.
C18_ResultComesFromThisRun ==
    run.pc = "returned" => (run.launched /\ run.wrote)

\* the solver ran, ended with a non-zero status and wrote nothing, and the
\* call has returned what lay at the output path before
C18_Witness ==
    /\ run.pc = "returned"
    /\ run.launched /\ ~run.wrote
    /\ run.return_code.value # 0

-----------------------------------------------------------------------------
(* A further claim about the construction of an Executor (SpecResolve) *)

\* C17 as stated: on Windows/Cygwin the resolved file name ends with the
\* extension '.exe', which follows the base name and the device suffix; on
\* Linux and Darwin the file name holds no extension.
C17_ExtensionIsSuffix ==
    \A k \in Calls :
        executors[k].binary_path # <<>> =>
            LET name == FileName(executors[k].binary_path)
            IN  IF Family(executors[k].platform) = "Windows"
                THEN name[Len(name)] = ".exe"
                ELSE ".exe" \notin Range(name)

\* a construction on win32 has resolved a file name whose last piece is the
\* device suffix
C17_Witness ==
    \E k \in Calls :
        /\ executors[k].platform = P_win32
        /\ FileName(executors[k].binary_path) = <<"kspaceFirstOrder", ".exe", "-OMP">>

-----------------------------------------------------------------------------
(* A further claim about load_simulations (SpecLoad) *)

\* a call saves over the aggregate that an earlier call has written; in
\* SpecLoad no step changes the output containers between the two
SavesAgain == load.written /\ load.pc = "stacked" /\ load'.pc = "done"

\* C14 as stated: a second run of the load loop over the same, unchanged
\* output containers leaves an aggregated container identical to the one
\* the first run left.
C14_IdenticalContainers ==
    [][SavesAgain => (load'.saved = load.saved /\ load'.header = load.header)]_vars

\* C14 as amended: a second run of the load loop over the same, unchanged
\* output containers does not raise where the first run completed, and the
\* aggregated container it leaves holds the dataset the first run left
\* (the same shape, the same entries in the same order); the header of the
\* container holds the time of writing and may differ.
C14_IdenticalDatasets ==
    /\ [](load.written => load.pc # "raised")
    /\ [][SavesAgain => load'.saved = load.saved]_vars

\* the second run has stacked its results, which equal the dataset the first
\* run saved, and is about to save over it
C14_Witness ==
    /\ load.written
    /\ load.pc = "stacked"
    /\ load.header = 1
    /\ load.simulation_data[1] = load.saved

-----------------------------------------------------------------------------
(* Claims about prepare_simulations and run_simulations (SpecScan) *)

\* the scan lines 1..n in increasing order
InOrder(n) == [k \in 1..n |-> k]

\* C15 as stated: a completed loop has run the solver exactly once on each
\* scan line 1..N, in increasing order, N = 96.
C15_SolverRunOncePerUnit ==
    /\ batch.pc = "done" => batch.invoked = InOrder(96)
    /\ scan.pc = "done" => scan.invoked = InOrder(96)

\* run_simulations has ended after printing the command of scan line 1,
\* without running the solver
C15_Witness ==
    /\ batch.pc = "done"
    /\ batch.printed = <<1>>
    /\ batch.invoked = <<>>

\* C16: medium_position is 0 at scan line 1 and, whenever scan line i slices
\* the medium, equals (i - 1) * element_width; the window of scan line i is
\* [(i - 1) * element_width, (i - 1) * element_width + Ny); and the loop
\* assigns to the attributes of medium only, never to the two maps.
C16_OffsetIsClosedForm ==
    /\ scan.pc \in {"loop", "sliced"} =>
          /\ scan.scan_line_index >= 1
          /\ scan.medium_position = (scan.scan_line_index - 1) * element_width
    /\ scan.pc = "sliced" => Len(scan.windows) = scan.scan_line_index
    /\ \A i \in 1..Len(scan.windows) :
          scan.windows[i] = <<(i - 1) * element_width, (i - 1) * element_width + Ny>>
    /\ scan.assigned \cap {"sound_speed_map", "density_map"} = {}

\* the last scan line has sliced its window, at offset 95 * 2
C16_Witness ==
    /\ scan.pc = "sliced"
    /\ scan.scan_line_index = 96
    /\ scan.medium_position = 190
    /\ scan.windows[96] = <<190, 298>>

-----------------------------------------------------------------------------
(* A claim about both reads of an output container (SpecRead) *)

\* C13: once run_simulation has returned or raised, and once an iteration
\* of the load loop has ended or raised, the file the call opened is closed,
\* also when the failure came while the dataset was being read.
C13_HandleReleased ==
    /\ run.pc \in {"returned", "raised"} => ~run.handle
    /\ load.pc \in {"loop", "raised", "stacked", "done"} => ~load.handle

\* run_simulation has raised while reading the dataset of a container it had
\* opened, and later the load loop has raised the same way in an iteration
C13_Witness ==
    /\ run.pc = "raised"
    /\ OpenError(outfiles[run.output_filename]) = None
    /\ run.error = DatasetError(outfiles[run.output_filename])
    /\ load.pc = "raised"
    /\ load.opened # <<>>
    /\ OpenError(outfiles[load.i]) = None
    /\ load.error = DatasetError(outfiles[load.i])
    /\ load.error # None

=============================================================================
